---- MODULE Spec2Model ----
(***************************************************************************)
(* Model of the HRMS browser front-end (ntwoods-com/hrms.python).          *)
(*                                                                         *)
(*  - Remote Gateway: API.request / API.uploadFiles (js/api.js) together   *)
(*    with Auth.refreshToken / Auth.logout (js/auth.js), which issue their *)
(*    own requests through API.request.                                    *)
(*  - HR module (candidate pipeline pages), with the remote pipeline       *)
(*    engine it talks to.                                                  *)
(*                                                                         *)
(* JavaScript is single threaded: everything that runs between the arrival *)
(* of one network response and the next suspension on a network request    *)
(* runs without interleaving, so one action of the model is "a response    *)
(* arrives" followed by all the code it resumes.                           *)
(***************************************************************************)
EXTENDS Integers, Sequences, FiniteSets, Bags, TLC

\* ------------------------------------------------------------------------
\* Bounds
\* ------------------------------------------------------------------------
\* Network requests the gateway may issue in one behaviour.
MaxFetch == 5
\* Top-level gateway calls (request or upload) started in one behaviour.
MaxCalls == 2
\* Distinct token / payload values a response may carry.
MaxData == 2
\* Candidates known to the remote pipeline.
MaxCand == 2
\* API calls of the HR module that may be awaiting their response at once.
MaxInflight == 2

\* The number of rejection tags the rejection form is submitted with.
MaxTag == 1

\* The number of blanks put around a segment of a file name.
MaxPad == 1

\* The number of files of one batch given to handleFiles, and of the files
\* pending upload.
MaxBatch == 2

\* The number of uploadCVs calls awaiting their response.
MaxUploads == 1

\* The number of walk-in submitForm calls awaiting their response.
MaxSubmits == 2

\* The number of setInterval calls of the Auth module in one behaviour.
MaxIntervals == 3

\* The number of requests of the Auth module awaiting their response.
MaxAuthCalls == 2

\* ------------------------------------------------------------------------
\* Gateway and session state
\* ------------------------------------------------------------------------
VARIABLES
    token,      \* localStorage[CONFIG.TOKEN_KEY]; 0 = no token stored
    user,       \* TRUE iff localStorage[CONFIG.USER_KEY] holds a user
    timer,      \* TRUE iff tokenRefreshTimer is set
    location,   \* "app" while a page of the application is loaded, "login" after the redirect
    tasks,      \* the asynchronous call chains: top-level calls and logouts
    nFetch      \* number of fetch() calls issued so far

gwVars == <<token, user, timer, location, tasks, nFetch>>

\* ------------------------------------------------------------------------
\* HR module state (stage pages) and the remote pipeline it talks to
\* ------------------------------------------------------------------------
VARIABLES
    candidates,           \* HR.candidates: the in-memory list
    selectedCandidateId,  \* HR.selectedCandidateId; 0 = null
    currentStage,         \* HR.currentStage
    rows,                 \* the candidates of the rows of .candidates-table, in order
    rowsStage,            \* the stage argument the rows were rendered with
    openModals,           \* ids of the modals that carry class "active"
    inflight,             \* bag of the API calls of the HR module awaiting their response
    srvStage,             \* remote: current stage of every candidate
    srvTimeline,          \* remote: timeline (actions) of every candidate
    ev,                   \* the last thing that happened on the page
    opener,               \* for every open modal, the candidate whose row opened it
    issued                \* the persistence calls awaiting their response, oldest first

hrVars == <<candidates, selectedCandidateId, currentStage, rows, rowsStage,
            openModals, inflight, srvStage, srvTimeline, ev, opener, issued>>

\* ------------------------------------------------------------------------
\* HR module state (cv-upload page) and the remote requirements
\* ------------------------------------------------------------------------
VARIABLES
    selectedFiles,      \* HR.selectedFiles: the accepted files pending upload
    requirements,       \* HR.requirements: what loadRequirements() stored
    uploadRequirement,  \* value of #upload-requirement; 0 = ""
    uploads,            \* bag of the uploadCVs calls awaiting their response
    srvReqStatus,       \* remote: status of every requirement
    iev,                \* the last thing that happened on the page
    inFile,             \* a file given to the classifier on its own
    outFile             \* what the classifier made of inFile

inVars == <<selectedFiles, requirements, uploadRequirement, uploads, srvReqStatus,
            iev, inFile, outFile>>

\* ------------------------------------------------------------------------
\* Candidate module state (walk-in form)
\* ------------------------------------------------------------------------
VARIABLES
    currentStep,    \* Candidate.currentStep
    candidateData,  \* Candidate.candidateData: which of its entries are set
    formShown,      \* TRUE iff .candidate-form-container still holds the form
    walkinCalls,    \* bag of the submitForm calls awaiting their response
    wev             \* the last thing that happened on the page

wkVars == <<currentStep, candidateData, formShown, walkinCalls, wev>>

\* ------------------------------------------------------------------------
\* Auth module state (session and token-refresh timer)
\* ------------------------------------------------------------------------
VARIABLES
    tokenState,         \* "none": no token stored; "valid" / "expired": a token
                        \* is stored and Date.now() is before / not before its exp
    currentUser,        \* TRUE iff a user is stored
    tokenRefreshTimer,  \* Auth.tokenRefreshTimer: 0 = null, else an interval id
    intervals,          \* ids of the intervals set and not cleared
    nIntervals,         \* number of setInterval calls so far
    authCalls,          \* bag of the requests of the Auth module in flight
    logoutDone,         \* TRUE iff a call of logout() has completed and nobody
                        \* has signed in since
    aev                 \* the last thing that happened

auVars == <<tokenState, currentUser, tokenRefreshTimer, intervals, nIntervals,
            authCalls, logoutDone, aev>>

vars == <<gwVars, hrVars, inVars, wkVars, auVars>>

\* What the server may answer to one fetch.
\*   ok     : 2xx, JSON body {success, data}
\*   unauth : 401
\*   err    : any other non-2xx status
\*   net    : fetch() rejects (network error)
Outcomes ==
    [kind : {"ok"}, success : BOOLEAN, data : 1..MaxData]
    \cup [kind : {"unauth", "err", "net"}, success : {FALSE}, data : {0}]

NoResp == [kind |-> "none", success |-> FALSE, data |-> 0]

NoResult == [raised |-> FALSE, kind |-> "none", success |-> FALSE, data |-> 0]

\* Error('Session expired. Please login again.')
SessionExpired == [raised |-> TRUE, kind |-> "expired", success |-> FALSE, data |-> 0]

\* handleResponse: returns the body of an ok response, throws an error that
\* carries the status for any other response.
HandleResponse(o) ==
    [raised |-> ~(o.kind = "ok"), kind |-> o.kind, success |-> o.success, data |-> o.data]

\* Result of `await fetch(...)` followed by handleResponse: a rejected fetch
\* goes straight to the catch block and is re-thrown.
FetchResult(o) ==
    IF o.kind = "net"
    THEN [raised |-> TRUE, kind |-> "net", success |-> FALSE, data |-> 0]
    ELSE HandleResponse(o)

\* Variant: every failed response is taken for an expired session.
NeedsRefresh_AnyError(o) == o.kind \in {"unauth", "err"}

\* request(): the test that sends a first response into the refresh path.
NeedsRefresh(o) == o.kind = "unauth"

\* Variant: every response goes through the refresh path when it is a 401.
RetryNeedsRefresh_Loop(o) == o.kind = "unauth"

\* request(): a response to the re-sent request is handed to handleResponse,
\* whatever its status.
RetryNeedsRefresh(o) == FALSE

\* Variant: the re-sent request reuses the headers of the first request.
RetryHeader_Stale(oldHdr, stored) == oldHdr

\* request(): the Authorization header of the re-sent request.
RetryHeader(oldHdr, stored) == stored

\* Auth.refreshToken: true iff the refresh request returned a body with
\* success set; false when it returned anything else or threw.
RefreshResult(res) == ~res.raised /\ res.success

\* uploadFiles(): the response goes to handleResponse, there is no 401 branch.
UploadNeedsRefresh(o) == FALSE

\* One activation of request() (or of uploadFiles()).
\*   ep        : "call" (a caller's endpoint), "refresh", "logout", "upload"
\*   phase     : "fetch1" awaiting the first response, "refreshing" awaiting
\*               Auth.refreshToken(), "fetch2" awaiting the re-sent request
\*   hdr       : token in the Authorization header of the request in flight
\*   resp1/2   : the responses received so far
\*   refreshed : outcome of Auth.refreshToken() as seen by this activation
\*   newTok    : the token Auth.refreshToken() stored for it (0: none)
\*   nRefresh  : calls of Auth.refreshToken() made by this activation
\*   nResend   : re-sends of the request made by this activation
NewFrame(ep, tok) ==
    [ep |-> ep, phase |-> "fetch1", hdr |-> tok, resp1 |-> NoResp, resp2 |-> NoResp,
     refreshed |-> "none", newTok |-> 0, nRefresh |-> 0, nResend |-> 0]

\* A call chain. kind "call": a caller awaiting API.request; "upload": a
\* caller awaiting API.uploadFiles; "logout": Auth.logout() started by
\* request() and not awaited. root is the top-level call it stems from.
NewTask(kind, root, tok) ==
    [kind |-> kind, root |-> root,
     stack |-> <<NewFrame(IF kind = "logout" THEN "logout" ELSE kind, tok)>>,
     done |-> FALSE, result |-> NoResult, nReq |-> 1, logouts |-> 0]

NoEvent == [kind |-> "other", id |-> 0, form |-> "none", terminal |-> FALSE]

\* No HR page is loaded.
HRIdle ==
    /\ candidates = <<>>
    /\ selectedCandidateId = 0
    /\ currentStage = ""
    /\ rows = <<>>
    /\ rowsStage = ""
    /\ openModals = {}
    /\ inflight = EmptyBag
    /\ srvStage = <<>>
    /\ srvTimeline = <<>>
    /\ ev = NoEvent
    /\ opener = <<>>
    /\ issued = <<>>

NoFile == [name |-> <<>>, size |-> 0]

NoOut ==
    [done |-> FALSE, accepted |-> FALSE, error |-> "none",
     entry |-> [isValid |-> FALSE, name |-> <<>>, mobile |-> <<>>, source |-> <<>>]]

NoIntakeEvent ==
    [kind |-> "none", batch |-> <<>>, valid |-> <<>>, errors |-> <<>>, approved |-> FALSE]

\* The cv-upload page is not loaded.
IntakeIdle ==
    /\ selectedFiles = <<>>
    /\ requirements = <<>>
    /\ uploadRequirement = 0
    /\ uploads = EmptyBag
    /\ srvReqStatus = <<>>
    /\ iev = NoIntakeEvent
    /\ inFile = NoFile
    /\ outFile = NoOut

\* The walk-in page is not loaded: the module's initial values.
WalkinIdle ==
    /\ currentStep = 1
    /\ candidateData = [mathVerified |-> FALSE, personal |-> FALSE, photo |-> FALSE]
    /\ formShown = FALSE
    /\ walkinCalls = EmptyBag
    /\ wev = [kind |-> "none", from |-> 0]

\* The Auth module is not followed.
AuthIdle ==
    /\ tokenState = "none"
    /\ currentUser = FALSE
    /\ tokenRefreshTimer = 0
    /\ intervals = {}
    /\ nIntervals = 0
    /\ authCalls = EmptyBag
    /\ logoutDone = FALSE
    /\ aev = [kind |-> "none", refresh |-> FALSE]

GWInit ==
    /\ token \in {0, 1}
    /\ user = (token # 0)
    /\ timer = (token # 0)
    /\ location = "app"
    /\ tasks = <<>>
    /\ nFetch = 0

Init == GWInit /\ HRIdle /\ IntakeIdle /\ WalkinIdle /\ AuthIdle

\* ------------------------------------------------------------------------
\* Gateway: what runs when a response arrives
\* ------------------------------------------------------------------------
SetTop(stack, frame) == [stack EXCEPT ![Len(stack)] = frame]


\* request() line 45: the activation on top of the stack calls
\* Auth.refreshToken(), which calls API.post('/auth/refresh-token'), which is
\* a new activation of request() that issues its own fetch.
CallRefresh(stack, tok) ==
    LET top == stack[Len(stack)]
    IN [stack   |-> Append(SetTop(stack, [top EXCEPT !.phase = "refreshing",
                                                     !.nRefresh = @ + 1]),
                           NewFrame("refresh", tok)),
        done    |-> FALSE,
        result  |-> NoResult,
        token   |-> tok,
        spawned |-> 0,
        fetched |-> 1]

\* The activation on top of the stack returns or throws res.
\*  - the bottom activation hands res to the caller of the chain;
\*  - any other activation is the request of an Auth.refreshToken() that the
\*    activation below awaits: refreshToken stores the new token and yields
\*    true, or yields false; the activation below then re-sends its request
\*    with the stored token, or starts Auth.logout() (not awaited, it issues
\*    its request at once) and throws the session-expired error.
RECURSIVE Complete(_, _, _)
Complete(stack, res, tok) ==
    IF Len(stack) = 1
    THEN [stack |-> stack, done |-> TRUE, result |-> res, token |-> tok,
          spawned |-> 0, fetched |-> 0]
    ELSE LET below     == SubSeq(stack, 1, Len(stack) - 1)
             caller    == below[Len(below)]
             refreshed == RefreshResult(res)
             newTok    == IF refreshed THEN res.data ELSE tok
         IN IF refreshed
            THEN [stack   |-> SetTop(below, [caller EXCEPT
                                  !.phase = "fetch2",
                                  !.refreshed = "yes",
                                  !.newTok = newTok,
                                  !.hdr = RetryHeader(caller.hdr, newTok),
                                  !.nResend = @ + 1]),
                  done    |-> FALSE,
                  result  |-> NoResult,
                  token   |-> newTok,
                  spawned |-> 0,
                  fetched |-> 1]
            ELSE LET r == Complete(SetTop(below, [caller EXCEPT !.refreshed = "no"]),
                                   SessionExpired, tok)
                 IN [r EXCEPT !.spawned = @ + 1, !.fetched = @ + 1]

\* A response o arrives for the request in flight of a request() chain.
OnResponse(stack, o, tok) ==
    LET top == stack[Len(stack)]
    IN IF top.phase = "fetch1"
       THEN LET st == SetTop(stack, [top EXCEPT !.resp1 = o])
            IN IF NeedsRefresh(o) THEN CallRefresh(st, tok)
               ELSE Complete(st, FetchResult(o), tok)
       ELSE LET st == SetTop(stack, [top EXCEPT !.resp2 = o])
            IN IF RetryNeedsRefresh(o) THEN CallRefresh(st, tok)
               ELSE Complete(st, FetchResult(o), tok)

\* A response o arrives for the request of uploadFiles().
OnUploadResponse(stack, o, tok) ==
    LET top == stack[1]
        st  == SetTop(stack, [top EXCEPT !.resp1 = o])
    IN IF UploadNeedsRefresh(o) THEN CallRefresh(st, tok)
       ELSE Complete(st, FetchResult(o), tok)

\* Variant: the session is cleared only when the logout request succeeded.
LogoutClears_OnSuccess(res) == ~res.raised

\* Auth.logout(): removeToken, removeUser and stopTokenRefresh are in the
\* finally block, which runs whether API.post returned or threw res.
LogoutClears(res) == TRUE

\* n copies of Auth.logout() started for top-level call root.
LogoutTasks(n, root, tok) == [k \in 1..n |-> NewTask("logout", root, tok)]

TopLevel == {i \in 1..Len(tasks) : tasks[i].kind \in {"call", "upload"}}

\* ------------------------------------------------------------------------
\* Gateway actions
\* ------------------------------------------------------------------------
\* A caller invokes API.get/post/put/patch/delete: request() attaches the
\* stored token and issues the fetch.
StartCall ==
    /\ location = "app"
    /\ Cardinality(TopLevel) < MaxCalls
    /\ nFetch < MaxFetch
    /\ tasks' = Append(tasks, NewTask("call", Len(tasks) + 1, token))
    /\ nFetch' = nFetch + 1
    /\ UNCHANGED <<token, user, timer, location>>
    /\ UNCHANGED <<hrVars, inVars, wkVars, auVars>>

\* A caller invokes API.candidates.uploadCVs / API.uploadFiles.
StartUpload ==
    /\ location = "app"
    /\ Cardinality(TopLevel) < MaxCalls
    /\ nFetch < MaxFetch
    /\ tasks' = Append(tasks, NewTask("upload", Len(tasks) + 1, token))
    /\ nFetch' = nFetch + 1
    /\ UNCHANGED <<token, user, timer, location>>
    /\ UNCHANGED <<hrVars, inVars, wkVars, auVars>>

\* The server answers the request in flight of chain i. When the chain is an
\* Auth.logout() and its request is over, the finally block of logout()
\* clears the session and redirects.
Respond(i, o) ==
    /\ location = "app"
    /\ ~tasks[i].done
    /\ LET t == tasks[i]
           r == IF t.kind = "upload"
                THEN OnUploadResponse(t.stack, o, token)
                ELSE OnResponse(t.stack, o, token)
           loggedOut == t.kind = "logout" /\ r.done
           cleared == loggedOut /\ LogoutClears(r.result)
       IN /\ nFetch + r.fetched <= MaxFetch
          /\ tasks' = [tasks EXCEPT ![i] =
                          [t EXCEPT !.stack = r.stack,
                                    !.done = r.done,
                                    !.result = r.result,
                                    !.nReq = @ + (r.fetched - r.spawned),
                                    !.logouts = @ + r.spawned]]
                      \o LogoutTasks(r.spawned, t.root, r.token)
          /\ nFetch' = nFetch + r.fetched
          /\ token' = IF cleared THEN 0 ELSE r.token
          /\ user' = IF cleared THEN FALSE ELSE user
          /\ timer' = IF cleared THEN FALSE ELSE timer
          /\ location' = IF loggedOut THEN "login" ELSE location
    /\ UNCHANGED <<hrVars, inVars, wkVars, auVars>>

ServerResponds == \E i \in 1..Len(tasks) : \E o \in Outcomes : Respond(i, o)

NextGW == StartCall \/ StartUpload \/ ServerResponds

SpecGW == Init /\ [][NextGW]_vars

\* ------------------------------------------------------------------------
\* Gateway properties
\* ------------------------------------------------------------------------
Chains == 1..Len(tasks)

Bottom(i) == tasks[i].stack[1]

RECURSIVE SumReq(_)
SumReq(S) ==
    IF S = {} THEN 0
    ELSE LET i == CHOOSE x \in S : TRUE IN tasks[i].nReq + SumReq(S \ {i})

\* Network requests issued on behalf of top-level call c: by its own chain of
\* request() activations and by the Auth.logout() chains it started.
RequestsFor(c) == SumReq({i \in Chains : tasks[i].root = c})

C2_SecondUnauthorizedLogsOut ==
    \A i \in Chains :
        ( /\ tasks[i].kind = "call"
          /\ tasks[i].done
          /\ Bottom(i).resp1.kind = "unauth"
          /\ Bottom(i).refreshed = "yes"
          /\ Bottom(i).resp2.kind = "unauth" )
        => /\ tasks[i].result = SessionExpired
           /\ tasks[i].logouts >= 1

\* Every answer chain i has received so far was a 401.
OnlyUnauthorized(i) ==
    LET st == tasks[i].stack
    IN /\ st[Len(st)].resp1.kind \in {"none", "unauth"}
       /\ st[Len(st)].resp2.kind \in {"none", "unauth"}
       /\ \A k \in 1..(Len(st) - 1) :
             st[k].resp1.kind = "unauth" /\ st[k].resp2.kind = "none"

\* C3: a gateway call (a caller's, or the one Auth.logout() makes) to which
\* the server has answered Unauthorized every time has issued at most the
\* requests of a single refresh cycle (its own request, one refresh request,
\* one re-send or logout request): it does not keep refreshing.
C3_BoundedRequests ==
    \A i \in Chains : OnlyUnauthorized(i) => tasks[i].nReq <= 1 + 1 + 1

\* C4: a call answered 401 once, then refreshed, then answered successfully
\* returns exactly the body of the second answer, raises nothing, starts no
\* logout, and its re-sent request carried the token the refresh stored.
C4_TransparentRetry ==
    \A i \in Chains :
        ( /\ tasks[i].kind = "call"
          /\ Bottom(i).resp1.kind = "unauth"
          /\ Bottom(i).refreshed = "yes"
          /\ Bottom(i).resp2.kind = "ok" )
        => /\ tasks[i].done
           /\ ~tasks[i].result.raised
           /\ tasks[i].result.kind = "ok"
           /\ tasks[i].result.success = Bottom(i).resp2.success
           /\ tasks[i].result.data = Bottom(i).resp2.data
           /\ tasks[i].logouts = 0
           /\ Bottom(i).nResend = 1
           /\ Bottom(i).hdr = Bottom(i).newTok

\* Such a call, where the refresh changed the token.
C4_Witness ==
    \E i \in Chains :
        /\ tasks[i].kind = "call"
        /\ tasks[i].done
        /\ Bottom(i).resp1.kind = "unauth"
        /\ Bottom(i).refreshed = "yes"
        /\ Bottom(i).resp2.kind = "ok"
        /\ Bottom(i).resp2.success
        /\ Bottom(i).newTok = 2
        /\ tasks[i].result.data = 1

\* C5: a call whose first answer is a failure other than 401 is over after
\* that one network request, with no refresh and no logout, and the failure
\* is raised to the caller as it came.
C5_OtherFailuresSurface ==
    \A i \in Chains :
        ( /\ tasks[i].kind = "call"
          /\ Bottom(i).resp1.kind \in {"err", "net"} )
        => /\ tasks[i].done
           /\ RequestsFor(i) = 1
           /\ Bottom(i).nRefresh = 0
           /\ Bottom(i).nResend = 0
           /\ tasks[i].logouts = 0
           /\ tasks[i].result.raised
           /\ tasks[i].result.kind = Bottom(i).resp1.kind

\* Both kinds of failure have been raised to a caller.
C5_Witness ==
    /\ \E i \in Chains :
          tasks[i].kind = "call" /\ tasks[i].done /\ Bottom(i).resp1.kind = "err"
    /\ \E i \in Chains :
          tasks[i].kind = "call" /\ tasks[i].done /\ Bottom(i).resp1.kind = "net"

\* C6: an upload call answered 401 refreshes the token once and re-sends the
\* upload once.
C6_UploadRetries ==
    \A i \in Chains :
        ( /\ tasks[i].kind = "upload"
          /\ Bottom(i).resp1.kind = "unauth" )
        => /\ Bottom(i).nRefresh = 1
           /\ (Bottom(i).refreshed = "yes" => Bottom(i).nResend = 1)

\* C22: once a call of Auth.logout() has completed, no token and no user are
\* stored (isAuthenticated() is false) and the token-refresh timer is
\* stopped, whether the logout request returned or threw.
C22_LogoutClearsSession ==
    \A i \in Chains :
        (tasks[i].kind = "logout" /\ tasks[i].done)
        => token = 0 /\ ~user /\ ~timer /\ ~(token # 0 /\ user)

\* A logout started with a token stored has completed after its request
\* failed.
C22_Witness ==
    \E i \in Chains :
        /\ tasks[i].kind = "logout"
        /\ tasks[i].done
        /\ tasks[i].result.raised
        /\ Bottom(i).hdr # 0
        /\ location = "login"

\* ------------------------------------------------------------------------
\* HR module: tables of the code
\* ------------------------------------------------------------------------
Ids == 1..MaxCand

\* CONFIG.CANDIDATE_STAGES
CANDIDATE_STAGES ==
    <<"Shortlisting", "Telephonic", "Owner Discussion", "Schedule Interview",
      "Walk-in", "HR Interview", "Tests", "Final Review", "Selected", "Rejected">>

Stages == {CANDIDATE_STAGES[k] : k \in 1..Len(CANDIDATE_STAGES)}

Terminal == {"Selected", "Rejected"}

NonTerminal == Stages \ Terminal

\* The values of getHRPage() that name a page with a candidates table.
StagePages ==
    {"shortlisting", "telephonic", "owner-discussion", "schedule", "walk-ins",
     "hr-interview", "tests"}

\* init(): pageLoaders, the stage each page asks loadCandidatesByStage for.
PageLoaderStage(page) ==
    CASE page = "shortlisting"     -> "Shortlisting"
      [] page = "telephonic"       -> "Telephonic"
      [] page = "owner-discussion" -> "Owner Discussion"
      [] page = "schedule"         -> "Schedule Interview"
      [] page = "walk-ins"         -> "Walk-in"
      [] page = "hr-interview"     -> "HR Interview"
      [] page = "tests"            -> "Tests"
      [] OTHER                     -> "none"

\* renderCandidateRow(): data-action of the .btn-action button of a row
\* rendered for stage; "none" when the switch matches no case.
RowAction(stage) ==
    CASE stage = "Shortlisting"       -> "shortlist"
      [] stage = "Telephonic"         -> "telephonic"
      [] stage = "Owner Discussion"   -> "owner-discussion"
      [] stage = "Schedule Interview" -> "schedule"
      [] stage = "Walk-in"            -> "walkin"
      [] stage = "HR Interview"       -> "hr-interview"
      [] stage = "Tests"              -> "test"
      [] OTHER                        -> "none"

\* renderCandidateRow(): every row carries a .btn-reject button.
RowHasReject(stage) == TRUE

\* handleCandidateAction(): actionModals.
ActionModal(action) ==
    CASE action = "shortlist"        -> "shortlist-modal"
      [] action = "telephonic"       -> "telephonic-modal"
      [] action = "owner-discussion" -> "owner-discussion-modal"
      [] action = "schedule"         -> "schedule-modal"
      [] action = "walkin"           -> "walkin-modal"
      [] action = "hr-interview"     -> "hr-interview-modal"
      [] action = "test"             -> "test-modal"
      [] OTHER                       -> "none"

\* CONFIG.REJECTION_TAGS.
REJECTION_TAGS ==
    <<"Shortlisting", "On Call Conversation", "Owner Rejected before Walk-in",
      "No Show for Interview", "HR Interview Failed", "Test Failed",
      "Document Verification Failed">>

RejectionTagSet == {REJECTION_TAGS[i] : i \in 1..Len(REJECTION_TAGS)}

\* openRejectionModal(): one radio button per rejection tag; what the form
\* can be submitted with. The form data of a rejection form with no radio
\* button chosen has no rejection_tag key ("none").
TagChoices == {REJECTION_TAGS[i] : i \in 1..MaxTag} \cup {"none"}

\* form.onsubmit: formData.rejection_tag of the payload posted.
RejectPayloadTag(tag) == tag

\* setupEventListeners(): the forms that get a submit handler, named by the
\* action whose modal holds them.
Forms == {"telephonic", "owner-discussion", "schedule", "hr-interview", "test"}

\* handle<Form>Submit(): the endpoint /hr/candidates/{id}/<endpoint> the
\* handler of the form posts to.
SubmitEndpoint(form) ==
    CASE form = "telephonic"       -> "telephonic"
      [] form = "owner-discussion" -> "owner-discussion"
      [] form = "schedule"         -> "schedule"
      [] form = "hr-interview"     -> "hr-interview"
      [] form = "test"             -> "tests"

\* handle<Form>Submit(): the stage the handler reloads after a success.
ReloadStage(form) ==
    CASE form = "telephonic"       -> "Telephonic"
      [] form = "owner-discussion" -> "Owner Discussion"
      [] form = "schedule"         -> "Schedule Interview"
      [] form = "hr-interview"     -> "HR Interview"
      [] form = "test"             -> "Tests"

\* ------------------------------------------------------------------------
\* Remote pipeline engine (not part of the front-end sources)
\* ------------------------------------------------------------------------
\* The stage an endpoint advances a candidate out of.
EndpointStage(ep) ==
    CASE ep = "shortlist"        -> "Shortlisting"
      [] ep = "telephonic"       -> "Telephonic"
      [] ep = "owner-discussion" -> "Owner Discussion"
      [] ep = "schedule"         -> "Schedule Interview"
      [] ep = "walkin"           -> "Walk-in"
      [] ep = "hr-interview"     -> "HR Interview"
      [] ep = "tests"            -> "Tests"
      [] OTHER                   -> "none"

StageIndex(stage) == CHOOSE k \in 1..Len(CANDIDATE_STAGES) : CANDIDATE_STAGES[k] = stage

\* The engine accepts an advance only for a candidate in the stage of the
\* endpoint, and a reject only for a candidate in a non-terminal stage and
\* with a tag of the rejection-tag set.
SrvAccepts(call) ==
    /\ call.id \in Ids
    /\ IF call.op = "reject"
       THEN srvStage[call.id] \in NonTerminal /\ call.tag \in RejectionTagSet
       ELSE srvStage[call.id] = EndpointStage(call.ep)

\* An accepted transition moves the stage ...
SrvStageAfter(call) ==
    [srvStage EXCEPT ![call.id] = IF call.op = "reject" THEN "Rejected" ELSE CANDIDATE_STAGES[StageIndex(@) + 1]]

\* Variant: the engine moves the stage without recording the transition.
SrvTimelineAfter_Unrecorded(call) == srvTimeline

\* ... and appends exactly one timeline entry, whose action is the transition.
SrvTimelineAfter(call) ==
    [srvTimeline EXCEPT ![call.id] = Append(@, call.ep)]

IdSeq == [k \in 1..MaxCand |-> k]

RECURSIVE MapCandidates(_)
MapCandidates(ids) ==
    IF ids = <<>> THEN <<>>
    ELSE <<[id |-> Head(ids), current_stage |-> srvStage[Head(ids)],
            timeline |-> srvTimeline[Head(ids)]]>> \o MapCandidates(Tail(ids))

\* GET /hr/candidates/stage?stage=...: the candidates whose stage is the
\* requested one, in stable order.
SrvList(stage) == MapCandidates(SelectSeq(IdSeq, LAMBDA k : srvStage[k] = stage))

\* The timeline a candidate found in some stage already has.
InitTimeline(stage) ==
    IF stage = "Rejected" THEN <<"reject">>
    ELSE [k \in 1..(IF StageIndex(stage) - 1 < 7 THEN StageIndex(stage) - 1 ELSE 7) |->
             CHOOSE ep \in {"shortlist", "telephonic", "owner-discussion", "schedule",
                            "walkin", "hr-interview", "tests"} :
                 EndpointStage(ep) = CANDIDATE_STAGES[k]]

\* ------------------------------------------------------------------------
\* HR module: stage pages
\* ------------------------------------------------------------------------
GWIdle ==
    /\ token = 1
    /\ user = TRUE
    /\ timer = TRUE
    /\ location = "app"
    /\ tasks = <<>>
    /\ nFetch = 0

\* What a step of the page did: "issue" (the submit of form issued a
\* persistence call, for a candidate whose remote stage was terminal or not),
\* "invalid" (the submit of form was stopped by validateForm), "unhandled"
\* (the form submitted has no submit listener), "persistOk" (the persistence
\* call of form for candidate id succeeded), "persistFail" (a persistence
\* call failed), "loadOk" (a list response was stored), "other".
Event(kind, id, form, terminal) ==
    [kind |-> kind, id |-> id, form |-> form, terminal |-> terminal]

Other == Event("other", 0, "none", FALSE)

\* The remote stage of the candidate a call names is terminal.
TerminalNow(id) == id \in Ids /\ srvStage[id] \in Terminal

LoadCall(stage) ==
    [op |-> "getByStage", id |-> 0, ep |-> "none", form |-> "none", stage |-> stage,
     tag |-> "none"]

Issue(call) == inflight (+) SetToBag({call})

Answered(call) == inflight (-) SetToBag({call})


\* candidates.find(c => c.id === id) finds something.
Known(id) == \E k \in 1..Len(candidates) : candidates[k].id = id

\* Variant: the list is assigned whatever the request yields.
LoadedCandidates_Cleared(ok, list, old) == IF ok THEN list ELSE <<>>

\* loadCandidatesByStage(): candidates is assigned from the response, inside
\* the try block after the await; a failed request leaves it alone.
LoadedCandidates(ok, list, old) == IF ok THEN list ELSE old

\* HR.init() on a stage page: currentStage is the page name, and the loader
\* of the page has issued its getByStage request. The remote pipeline holds
\* candidates in the stage of the page; the other stages are reached by the
\* transitions.
HRInit ==
    /\ \E page \in StagePages :
          /\ currentStage = page
          /\ inflight = SetToBag({LoadCall(PageLoaderStage(page))})
          /\ srvStage = [k \in Ids |-> PageLoaderStage(page)]
    /\ candidates = <<>>
    /\ selectedCandidateId = 0
    /\ rows = <<>>
    /\ rowsStage = ""
    /\ openModals = {}
    /\ srvTimeline = [k \in Ids |-> InitTimeline(srvStage[k])]
    /\ ev = NoEvent
    /\ opener = <<>>
    /\ issued = <<>>

InitHR == GWIdle /\ HRInit /\ IntakeIdle /\ WalkinIdle /\ AuthIdle

\* The modal is (re)opened from the row of candidate id.
OpenedBy(modal, id) ==
    [m \in DOMAIN opener \cup {modal} |-> IF m = modal THEN id ELSE opener[m]]

\* The persistence calls awaiting their response once one more is issued, and
\* once the one at position i is answered.
IssuedWith(call) == Append(issued, call)

IssuedWithout(i) == SubSeq(issued, 1, i - 1) \o SubSeq(issued, i + 1, Len(issued))

\* handleCandidateAction: click on the .btn-action button of row k.
HRClickAction(k) ==
    /\ k \in 1..Len(rows)
    /\ RowAction(rowsStage) # "none"
    /\ selectedCandidateId' = rows[k].id
    /\ openModals' = IF Known(rows[k].id)
                     THEN openModals \cup {ActionModal(RowAction(rowsStage))}
                     ELSE openModals
    /\ opener' = IF Known(rows[k].id)
                 THEN OpenedBy(ActionModal(RowAction(rowsStage)), rows[k].id)
                 ELSE opener
    /\ ev' = Other
    /\ UNCHANGED <<candidates, currentStage, rows, rowsStage, inflight, srvStage, srvTimeline>>
    /\ UNCHANGED <<gwVars, inVars, wkVars, auVars, issued>>

\* handleRejectCandidate + openRejectionModal: click on the .btn-reject
\* button of row k.
HRClickReject(k) ==
    /\ k \in 1..Len(rows)
    /\ RowHasReject(rowsStage)
    /\ selectedCandidateId' = IF Known(rows[k].id) THEN rows[k].id ELSE selectedCandidateId
    /\ openModals' = IF Known(rows[k].id) THEN openModals \cup {"rejection-modal"} ELSE openModals
    /\ opener' = IF Known(rows[k].id) THEN OpenedBy("rejection-modal", rows[k].id) ELSE opener
    /\ ev' = Other
    /\ UNCHANGED <<candidates, currentStage, rows, rowsStage, inflight, srvStage, srvTimeline>>
    /\ UNCHANGED <<gwVars, inVars, wkVars, auVars, issued>>

\* closeModals: click on a .modal-close / .btn-cancel button of an open modal.
HRCloseModals ==
    /\ openModals # {}
    /\ openModals' = {}
    /\ opener' = <<>>
    /\ selectedCandidateId' = 0
    /\ ev' = Other
    /\ UNCHANGED <<candidates, currentStage, rows, rowsStage, inflight, srvStage, srvTimeline>>
    /\ UNCHANGED <<gwVars, inVars, wkVars, auVars, issued>>

\* Variant: the handler does not look at the verdict of validateForm.
SubmitProceeds_Unchecked(valid) == TRUE

\* handle<Form>Submit(): "if (!Utils.validateForm(this)) return;".
SubmitProceeds(valid) == valid

\* handleTelephonicSubmit .. handleTestSubmit: submit of the form of an open
\* action modal; valid is the verdict of Utils.validateForm.
HRSubmitForm(form, valid) ==
    /\ ActionModal(form) \in openModals
    /\ LET call == [op |-> "advance", id |-> selectedCandidateId,
                    ep |-> SubmitEndpoint(form), form |-> form,
                    stage |-> ReloadStage(form), tag |-> "none"]
       IN IF SubmitProceeds(valid)
          THEN /\ BagCardinality(inflight) < MaxInflight
               /\ inflight' = Issue(call)
               /\ issued' = IssuedWith(call)
          ELSE /\ inflight' = inflight
               /\ issued' = issued
    /\ ev' = IF valid
             THEN Event("issue", 0, form, TerminalNow(selectedCandidateId))
             ELSE Event("invalid", 0, form, FALSE)
    /\ UNCHANGED <<candidates, selectedCandidateId, currentStage, rows, rowsStage,
                   openModals, srvStage, srvTimeline>>
    /\ UNCHANGED <<gwVars, inVars, wkVars, auVars, opener>>

\* The forms of the action modals that setupEventListeners() gives no submit
\* listener.
UnhandledForms == {"shortlist", "walkin"}

\* Submit of the form of an open action modal that has no submit listener:
\* no code of the module runs.
HRSubmitUnhandled(form) ==
    /\ form \in UnhandledForms
    /\ ActionModal(form) \in openModals
    /\ ev' = Event("unhandled", 0, form, FALSE)
    /\ UNCHANGED <<candidates, selectedCandidateId, currentStage, rows, rowsStage,
                   openModals, inflight, srvStage, srvTimeline>>
    /\ UNCHANGED <<gwVars, inVars, wkVars, auVars, opener, issued>>

\* openRejectionModal, form.onsubmit: submit of the rejection form with the
\* rejection_tag radio button chosen ("none": none chosen). The handler posts
\* Utils.getFormData(form) as it is.
HRSubmitReject(tag) ==
    /\ "rejection-modal" \in openModals
    /\ BagCardinality(inflight) < MaxInflight
    /\ LET call == [op |-> "reject", id |-> selectedCandidateId, ep |-> "reject",
                    form |-> "reject", stage |-> "none", tag |-> RejectPayloadTag(tag)]
       IN /\ inflight' = Issue(call)
          /\ issued' = IssuedWith(call)
    /\ ev' = Event("issue", 0, "reject", TerminalNow(selectedCandidateId))
    /\ UNCHANGED <<candidates, selectedCandidateId, currentStage, rows, rowsStage,
                   openModals, srvStage, srvTimeline>>
    /\ UNCHANGED <<gwVars, inVars, wkVars, auVars, opener>>

\* loadCandidatesByStage after its await: the getByStage call is answered.
HRLoadResponse(call, ok) ==
    /\ BagIn(call, inflight)
    /\ call.op = "getByStage"
    /\ LET list == SrvList(call.stage)
           now  == LoadedCandidates(ok, list, candidates)
       IN /\ candidates' = now
          /\ rows' = IF ok THEN now ELSE rows
          /\ rowsStage' = IF ok THEN call.stage ELSE rowsStage
          /\ ev' = IF ok THEN Event("loadOk", 0, "none", FALSE) ELSE Other
    /\ inflight' = Answered(call)
    /\ UNCHANGED <<selectedCandidateId, currentStage, openModals, srvStage, srvTimeline>>
    /\ UNCHANGED <<gwVars, inVars, wkVars, auVars, opener, issued>>

\* A submit handler after its await: the persistence call is answered. On
\* success the handler closes the modals and reloads the list (its own stage
\* for a stage form, currentStage for the rejection form); on failure it only
\* reports.
HRPersistResponse(call, ok) ==
    /\ BagIn(call, inflight)
    /\ call.op \in {"advance", "reject"}
    /\ IF ok
       THEN /\ SrvAccepts(call)
            /\ srvStage' = SrvStageAfter(call)
            /\ srvTimeline' = SrvTimelineAfter(call)
            /\ openModals' = {}
            /\ opener' = <<>>
            /\ selectedCandidateId' = 0
            /\ inflight' = Answered(call) (+) SetToBag({LoadCall(
                   IF call.op = "reject" THEN currentStage ELSE call.stage)})
            /\ ev' = Event("persistOk", call.id, call.form, FALSE)
       ELSE /\ inflight' = Answered(call)
            /\ ev' = Event("persistFail", 0, "none", FALSE)
            /\ UNCHANGED <<srvStage, srvTimeline, openModals, opener, selectedCandidateId>>
    /\ \E i \in 1..Len(issued) : issued[i] = call /\ issued' = IssuedWithout(i)
    /\ UNCHANGED <<candidates, currentStage, rows, rowsStage>>
    /\ UNCHANGED <<gwVars, inVars, wkVars, auVars>>

\* The search terms: the empty term, and for every candidate a term that
\* only its name, mobile or role contain.
Terms ==
    {[empty |-> TRUE, matches |-> {}]} \cup {[empty |-> FALSE, matches |-> {k}] : k \in Ids}

\* handleCandidateSearch: an empty term shows the whole list, any other term
\* the candidates that match it.
HRSearch(term) ==
    /\ rows' = IF term.empty THEN candidates
               ELSE SelectSeq(candidates, LAMBDA c : c.id \in term.matches)
    /\ rowsStage' = currentStage
    /\ ev' = Other
    /\ UNCHANGED <<candidates, selectedCandidateId, currentStage, openModals, inflight,
                   srvStage, srvTimeline>>
    /\ UNCHANGED <<gwVars, inVars, wkVars, auVars, opener, issued>>



\* The requirements #filter-requirement offers.
FilterReqs == {1}

\* GET /hr/candidates/requirement/{id}: the candidates of the requirement,
\* whatever their stage, in stable order. Every candidate is one of
\* requirement 1.
SrvByRequirement(reqId) == IF reqId = 1 THEN MapCandidates(IdSeq) ELSE <<>>

\* Variant: the response is displayed without the stage filter.
RequirementFiltered_All(list, stage) == list

\* handleRequirementFilter(): response.data.filter(c => c.current_stage ===
\* currentStage).
RequirementFiltered(list, stage) == SelectSeq(list, LAMBDA c : c.current_stage = stage)

RequirementCall(reqId) ==
    [op |-> "getByRequirement", id |-> reqId, ep |-> "none", form |-> "none",
     stage |-> "none", tag |-> "none"]

\* handleRequirementFilter(): change of #filter-requirement to reqId (0: the
\* empty option, which reloads the list of currentStage).
HRRequirementFilter(reqId) ==
    /\ currentStage \in StagePages
    /\ BagCardinality(inflight) < MaxInflight
    /\ inflight' = IF reqId = 0 THEN Issue(LoadCall(currentStage))
                   ELSE Issue(RequirementCall(reqId))
    /\ ev' = Other
    /\ UNCHANGED <<candidates, selectedCandidateId, currentStage, rows, rowsStage,
                   openModals, srvStage, srvTimeline>>
    /\ UNCHANGED <<gwVars, inVars, wkVars, auVars, opener, issued>>

\* handleRequirementFilter() after its await: the filtered response is
\* rendered; candidates is not assigned.
HRFilterResponse(call, ok) ==
    /\ BagIn(call, inflight)
    /\ call.op = "getByRequirement"
    /\ inflight' = Answered(call)
    /\ rows' = IF ok THEN RequirementFiltered(SrvByRequirement(call.id), currentStage)
               ELSE rows
    /\ rowsStage' = IF ok THEN currentStage ELSE rowsStage
    /\ ev' = IF ok THEN Event("filterOk", call.id, "none", FALSE) ELSE Other
    /\ UNCHANGED <<candidates, selectedCandidateId, currentStage, openModals, srvStage,
                   srvTimeline>>
    /\ UNCHANGED <<gwVars, inVars, wkVars, auVars, opener, issued>>

NextHR ==
    \/ \E k \in 1..MaxCand : HRClickAction(k)
    \/ \E k \in 1..MaxCand : HRClickReject(k)
    \/ HRCloseModals
    \/ \E form \in Forms : \E valid \in BOOLEAN : HRSubmitForm(form, valid)
    \/ \E form \in UnhandledForms : HRSubmitUnhandled(form)
    \/ \E tag \in TagChoices : HRSubmitReject(tag)
    \/ \E call \in BagToSet(inflight) : \E ok \in BOOLEAN : HRLoadResponse(call, ok)
    \/ \E call \in BagToSet(inflight) : \E ok \in BOOLEAN : HRPersistResponse(call, ok)
    \/ \E term \in Terms : HRSearch(term)
    \/ \E reqId \in FilterReqs \cup {0} : HRRequirementFilter(reqId)
    \/ \E call \in BagToSet(inflight) : \E ok \in BOOLEAN : HRFilterResponse(call, ok)

SpecHR == InitHR /\ [][NextHR]_vars

\* ------------------------------------------------------------------------
\* HR module properties
\* ------------------------------------------------------------------------
\* C7: the step in which a persistence call (stage form or rejection) fails
\* leaves the in-memory candidate list as it was, and the list changes in no
\* step other than the arrival of a successful list response.
C7_FailedActionLeavesList ==
    [][ /\ (ev'.kind = "persistFail" => candidates' = candidates)
        /\ (candidates' # candidates => ev'.kind = "loadOk") ]_vars

\* A persistence call has just failed while candidates were listed.
C7_Witness == ev.kind = "persistFail" /\ Len(candidates) > 0

\* C8: the step in which an advance of candidate id succeeds appends exactly
\* one entry to the timeline of id, the entry names the transition out of the
\* stage whose action form was submitted, and no other timeline changes.
C8_TimelineGrowsByOne ==
    [][ (ev'.kind = "persistOk" /\ ev'.form \in Forms) =>
           LET id  == ev'.id
               old == srvTimeline[id]
               new == srvTimeline'[id]
           IN /\ Len(new) = Len(old) + 1
              /\ SubSeq(new, 1, Len(old)) = old
              /\ RowAction(EndpointStage(new[Len(new)])) = ev'.form
              /\ \A k \in Ids \ {id} : srvTimeline'[k] = srvTimeline[k] ]_vars

\* An advance has just succeeded.
C8_Witness ==
    /\ ev.kind = "persistOk"
    /\ ev.form \in Forms
    /\ Len(srvTimeline[ev.id]) > 0

\* C9: no persistence call (advance or reject) is issued for a candidate
\* whose current stage is Selected or Rejected.
C9_TerminalRefused == ev.kind = "issue" => ~ev.terminal

\* A candidate is listed, with a reject button, by the page of its stage.
RejectOffered(id) ==
    \E page \in StagePages :
        /\ RowHasReject(PageLoaderStage(page))
        /\ \E k \in 1..Len(SrvList(PageLoaderStage(page))) :
              SrvList(PageLoaderStage(page))[k].id = id

\* C10: every candidate in a non-terminal stage is offered the reject action
\* on some page, and a reject that succeeded has left its candidate in
\* stage Rejected.
C10_RejectFromEveryStage ==
    /\ \A id \in Ids : srvStage[id] \in NonTerminal => RejectOffered(id)
    /\ (ev.kind = "persistOk" /\ ev.form = "reject") => srvStage[ev.id] = "Rejected"

\* C11: every reject persistence call carries a tag of REJECTION_TAGS, so a
\* rejection form submitted with no tag issues no call.
C11_RejectCarriesTag ==
    \A call \in BagToSet(inflight) : call.op = "reject" => call.tag \in RejectionTagSet

\* C12: every non-terminal stage has an advance action on its rows, and the
\* submit of the form of that action with a valid payload issues a
\* persistence call.
C12_OneAdvancePerStage ==
    /\ \A id \in Ids : srvStage[id] \in NonTerminal => RowAction(srvStage[id]) # "none"
    /\ ev.kind # "unhandled"

\* The state of the page and of the remote pipeline, without the record of
\* the last step.
hrState ==
    <<candidates, selectedCandidateId, currentStage, rows, rowsStage, openModals,
      inflight, srvStage, srvTimeline, opener, issued>>

C20_RequirementFilterShowsStage ==
    ev.kind = "filterOk" =>
        rows = SelectSeq(SrvByRequirement(ev.id),
                         LAMBDA c : c.current_stage = PageLoaderStage(currentStage))

\* C21: on a stage page every render of the rows offers the actions of the
\* page's stage, whichever operation triggered the render.
C21_SameActionsEveryRender ==
    Len(rows) > 0 => RowAction(rowsStage) = RowAction(PageLoaderStage(currentStage))

\* C23: every getByStage request of the HR module carries a stage of the
\* Stage enumeration, the one of the page displayed.
C23_LoadsCarryPageStage ==
    \A call \in BagToSet(inflight) :
        call.op = "getByStage" =>
            call.stage \in Stages /\ call.stage = PageLoaderStage(currentStage)

\* C24: for one candidate the persistence calls resolve in the order they
\* were issued: a call is answered only when no call issued before it for
\* the same candidate still awaits its response.
C24_ResolveInIssueOrder ==
    [][ Len(issued') < Len(issued) =>
          \E i \in 1..Len(issued) :
              /\ issued' = IssuedWithout(i)
              /\ \A j \in 1..(i - 1) : issued[j].id # issued[i].id ]_vars

\* C25: at most one stage-changing persistence call awaits its response.
C25_OneOutstandingCall == Len(issued) <= 1

\* C26: the persistence call a submit issues names the candidate whose row
\* opened the form submitted, never null and never another candidate.
C26_SubmitTargetsOpener ==
    [][ (ev'.kind = "issue" /\ Len(issued') > Len(issued)) =>
          /\ issued'[Len(issued')].id \in Ids
          /\ issued'[Len(issued')].id =
                 opener[IF ev'.form = "reject" THEN "rejection-modal"
                        ELSE ActionModal(ev'.form)] ]_vars

\* ------------------------------------------------------------------------
\* cv-upload page: the intake classifier
\* ------------------------------------------------------------------------
\* Strings are sequences of characters.
Rep(ch, n) == [i \in 1..n |-> ch]

Digits == {"0", "1", "2", "3", "4", "5", "6", "7", "8", "9"}

\* The white space String.prototype.trim() removes.
Blank == {" "}

\* String.prototype.toLowerCase(), on the letters file names are made of.
LowerChar(ch) ==
    CASE ch = "A" -> "a" [] ch = "C" -> "c" [] ch = "D" -> "d" [] ch = "F" -> "f"
      [] ch = "O" -> "o" [] ch = "P" -> "p" [] ch = "X" -> "x" [] OTHER -> ch

ToLowerCase(str) == [i \in 1..Len(str) |-> LowerChar(str[i])]

\* String.prototype.lastIndexOf(ch), 1-based; 0 when ch does not occur.
LastIndexOf(str, ch) ==
    IF \E i \in 1..Len(str) : str[i] = ch
    THEN CHOOSE i \in 1..Len(str) : str[i] = ch /\ \A j \in (i + 1)..Len(str) : str[j] # ch
    ELSE 0

\* String.prototype.split(sep): the pieces between the occurrences of sep.
RECURSIVE Split(_, _)
Split(str, sep) ==
    IF \E i \in 1..Len(str) : str[i] = sep
    THEN LET i == CHOOSE k \in 1..Len(str) :
                      str[k] = sep /\ \A j \in 1..(k - 1) : str[j] # sep
         IN <<SubSeq(str, 1, i - 1)>> \o Split(SubSeq(str, i + 1, Len(str)), sep)
    ELSE <<str>>

\* Array.prototype.join(sep).
RECURSIVE Join(_, _)
Join(parts, sep) ==
    IF parts = <<>> THEN <<>>
    ELSE IF Len(parts) = 1 THEN parts[1]
    ELSE parts[1] \o <<sep>> \o Join(Tail(parts), sep)

\* String.prototype.trim().
RECURSIVE Trim(_)
Trim(str) ==
    IF str = <<>> THEN <<>>
    ELSE IF Head(str) \in Blank THEN Trim(Tail(str))
    ELSE IF str[Len(str)] \in Blank THEN Trim(SubSeq(str, 1, Len(str) - 1))
    ELSE str

\* CONFIG.MAX_FILE_SIZE, in bytes.
MAX_FILE_SIZE == 5 * 1024 * 1024

\* CONFIG.ALLOWED_CV_EXTENSIONS.
ALLOWED_CV_EXTENSIONS ==
    {<<".", "p", "d", "f">>, <<".", "d", "o", "c">>, <<".", "d", "o", "c", "x">>}

\* Utils.isValidFileType(): '.' + filename.split('.').pop().toLowerCase().
isValidFileType(filename, allowedExtensions) ==
    LET pieces == Split(filename, ".")
        ext    == <<".">> \o ToLowerCase(pieces[Len(pieces)])
    IN ext \in allowedExtensions

\* Utils.isValidFileSize().
isValidFileSize(fileSize) == fileSize <= MAX_FILE_SIZE

\* filename.replace(/\.[^.]+$/, ''): a last dot followed by at least one
\* character is cut off with what follows it.
WithoutExt(filename) ==
    LET dot == LastIndexOf(filename, ".")
    IN IF dot > 0 /\ dot < Len(filename) THEN SubSeq(filename, 1, dot - 1) ELSE filename

\* Number of digits of a mobile number, /^\d{10}$/.
MobileDigits == 10

\* /^\d{10}$/.test(mobile)
IsMobile(mobile) == Len(mobile) = MobileDigits /\ \A i \in 1..Len(mobile) : mobile[i] \in Digits

\* Variant: the segments are taken as they are, without trim().
Segment_Untrimmed(str) == str

\* parseFilename(): the trim() applied to every segment taken.
Segment(str) == Trim(str)

InvalidName == [isValid |-> FALSE, name |-> <<>>, mobile |-> <<>>, source |-> <<>>]

\* parseFilename().
parseFilename(filename) ==
    LET parts == Split(WithoutExt(filename), "_")
    IN IF Len(parts) < 3 THEN InvalidName
       ELSE LET name   == Segment(parts[1])
                mobile == Segment(parts[2])
                source == Segment(Join(SubSeq(parts, 3, Len(parts)), "_"))
            IN IF ~IsMobile(mobile) THEN InvalidName
               ELSE [isValid |-> TRUE, name |-> name, mobile |-> mobile, source |-> source]

\* handleFiles(), the body of the forEach for one file: the error pushed, or
\* the entry pushed to validFiles.
ClassifyFile(file) ==
    IF ~isValidFileType(file.name, ALLOWED_CV_EXTENSIONS)
    THEN [accepted |-> FALSE, error |-> "Invalid file type", entry |-> InvalidName]
    ELSE IF ~isValidFileSize(file.size)
    THEN [accepted |-> FALSE, error |-> "File too large", entry |-> InvalidName]
    ELSE LET parsed == parseFilename(file.name)
         IN IF ~parsed.isValid
            THEN [accepted |-> FALSE, error |-> "Invalid format", entry |-> InvalidName]
            ELSE [accepted |-> TRUE, error |-> "none", entry |-> parsed]

\* The file names the classifier is tried on: a name segment, a mobile
\* segment, the rest of the base name and an extension.
NameSegs == {Rep(" ", k) \o <<"A">> : k \in 0..MaxPad}

MobileSegs ==
    {Rep(" ", k) \o Rep("9", n) \o Rep(" ", m) :
        k \in 0..MaxPad, m \in 0..MaxPad,
        n \in {MobileDigits - 1, MobileDigits, MobileDigits + 1}}
    \cup {Rep("9", MobileDigits - 1) \o <<"x">>}

RestSegs ==
    {<<>>, <<"_">>, <<"_", "S">>, <<"_", "S", " ">>, <<"_", "S", "_", "T">>}

ExtSegs ==
    {<<>>, <<".", "p", "d", "f">>, <<".", "P", "D", "F">>, <<".", "d", "o", "c", "x">>,
     <<".", "t", "x", "t">>}

Files ==
    {[name |-> n \o <<"_">> \o m \o r \o e, size |-> z] :
        n \in NameSegs, m \in MobileSegs, r \in RestSegs, e \in ExtSegs,
        z \in {MAX_FILE_SIZE, MAX_FILE_SIZE + 1}}

\* One file is handed to the classifier.
ParseInit ==
    /\ inFile \in Files
    /\ outFile = NoOut
    /\ selectedFiles = <<>>
    /\ requirements = <<>>
    /\ uploadRequirement = 0
    /\ uploads = EmptyBag
    /\ srvReqStatus = <<>>
    /\ iev = NoIntakeEvent

InitParse == GWIdle /\ HRIdle /\ ParseInit /\ WalkinIdle /\ AuthIdle

\* handleFiles() on the file: what its forEach body pushes.
ClassifyOne ==
    /\ ~outFile.done
    /\ outFile' = ClassifyFile(inFile) @@ [done |-> TRUE]
    /\ UNCHANGED <<selectedFiles, requirements, uploadRequirement, uploads, srvReqStatus,
                   iev, inFile>>
    /\ UNCHANGED <<gwVars, hrVars, wkVars, auVars>>

NextParse == ClassifyOne

SpecParse == InitParse /\ [][NextParse]_vars

\* The claim's reading of a file name: the extension is what follows the
\* last dot, the base name what precedes it, and the segments are what the
\* first two underscores of the base name delimit.
NthIndexOf(str, ch, n) ==
    IF Cardinality({i \in 1..Len(str) : str[i] = ch}) >= n
    THEN CHOOSE i \in 1..Len(str) :
            str[i] = ch /\ Cardinality({j \in 1..(i - 1) : str[j] = ch}) = n - 1
    ELSE 0

ExtensionOf(name) ==
    LET dot == LastIndexOf(name, ".")
    IN IF dot = 0 THEN <<>> ELSE ToLowerCase(SubSeq(name, dot, Len(name)))

BaseOf(name) ==
    LET dot == LastIndexOf(name, ".")
    IN IF dot = 0 THEN name ELSE SubSeq(name, 1, dot - 1)

FirstSegment(name) == SubSeq(BaseOf(name), 1, NthIndexOf(BaseOf(name), "_", 1) - 1)

SecondSegment(name) ==
    SubSeq(BaseOf(name), NthIndexOf(BaseOf(name), "_", 1) + 1,
           NthIndexOf(BaseOf(name), "_", 2) - 1)

AfterSecondUnderscore(name) ==
    SubSeq(BaseOf(name), NthIndexOf(BaseOf(name), "_", 2) + 1, Len(BaseOf(name)))

TenDigits(str) == Len(str) = 10 /\ \A i \in 1..Len(str) : str[i] \in Digits

\* C14 as stated: a file is accepted exactly when its extension is allowed,
\* its size is at most the maximum, its base name has at least 3 segments
\* and the second segment is exactly 10 digits; name, mobile and source are
\* then the first segment, the second and what follows the second underscore.
C14_ClassifierAcceptance ==
    outFile.done =>
        /\ outFile.accepted <=>
              /\ ExtensionOf(inFile.name) \in ALLOWED_CV_EXTENSIONS
              /\ inFile.size <= MAX_FILE_SIZE
              /\ NthIndexOf(BaseOf(inFile.name), "_", 2) > 0
              /\ TenDigits(SecondSegment(inFile.name))
        /\ outFile.accepted =>
              /\ outFile.entry.name = FirstSegment(inFile.name)
              /\ outFile.entry.mobile = SecondSegment(inFile.name)
              /\ outFile.entry.source = AfterSecondUnderscore(inFile.name)

\* C14 amended: the second segment is 10 digits once the white space around
\* it is trimmed, and name, mobile and source are the trimmed first segment,
\* second segment and rest.
C14_ClassifierAcceptsTrimmed ==
    outFile.done =>
        /\ outFile.accepted <=>
              /\ ExtensionOf(inFile.name) \in ALLOWED_CV_EXTENSIONS
              /\ inFile.size <= MAX_FILE_SIZE
              /\ NthIndexOf(BaseOf(inFile.name), "_", 2) > 0
              /\ TenDigits(Trim(SecondSegment(inFile.name)))
        /\ outFile.accepted =>
              /\ outFile.entry.name = Trim(FirstSegment(inFile.name))
              /\ outFile.entry.mobile = Trim(SecondSegment(inFile.name))
              /\ outFile.entry.source = Trim(AfterSecondUnderscore(inFile.name))

C14_Witness ==
    /\ outFile.done
    /\ outFile.accepted
    /\ outFile.entry.mobile # SecondSegment(inFile.name)
    /\ outFile.entry.source # <<>>

\* ------------------------------------------------------------------------
\* cv-upload page: batches, the pending files and the upload
\* ------------------------------------------------------------------------
\* Variant: the loop over the batch stops at the first file it rejects.
ForEachContinues_Break(result) == result.accepted

\* handleFiles(): "return" inside the forEach callback ends the callback of
\* that file only.
ForEachContinues(result) == TRUE

\* handleFiles(): the forEach over the batch; acc holds validFiles and errors.
RECURSIVE HandleFilesLoop(_, _)
HandleFilesLoop(files, acc) ==
    IF files = <<>> THEN acc
    ELSE LET file   == Head(files)
             result == ClassifyFile(file)
             next   == IF result.accepted
                       THEN [acc EXCEPT !.validFiles = Append(@,
                               [file |-> file, name |-> result.entry.name,
                                mobile |-> result.entry.mobile,
                                source |-> result.entry.source, filename |-> file.name])]
                       ELSE [acc EXCEPT !.errors = Append(@,
                               [filename |-> file.name, error |-> result.error])]
         IN IF ForEachContinues(result) THEN HandleFilesLoop(Tail(files), next) ELSE next

Classified(files) == HandleFilesLoop(files, [validFiles |-> <<>>, errors |-> <<>>])

\* The files batches are made of: two well-formed ones, one of a type that
\* is not allowed and one whose name has two segments only.
CoreFiles ==
    {[name |-> <<"A", "_">> \o Rep("9", MobileDigits) \o <<"_", "S", ".", "p", "d", "f">>,
      size |-> MAX_FILE_SIZE],
     [name |-> <<"A", "_">> \o Rep("9", MobileDigits) \o <<"_", "T", ".", "d", "o", "c">>,
      size |-> MAX_FILE_SIZE],
     [name |-> <<"A", "_">> \o Rep("9", MobileDigits) \o <<"_", "S", ".", "t", "x", "t">>,
      size |-> MAX_FILE_SIZE]}

RECURSIVE SeqsUpTo(_, _)
SeqsUpTo(S, n) ==
    IF n = 0 THEN {<<>>}
    ELSE LET shorter == SeqsUpTo(S, n - 1)
         IN shorter \cup {Append(q, x) : q \in {r \in shorter : Len(r) = n - 1}, x \in S}

Batches == SeqsUpTo(CoreFiles, MaxBatch) \ {<<>>}

\* What handleFiles makes of every batch.
ClassifiedBatch == [batch \in Batches |-> Classified(batch)]

\* The requirements the remote side knows.
ReqIds == {1}

IntakeEvent(kind) == [NoIntakeEvent EXCEPT !.kind = kind]

RequirementsCall ==
    [op |-> "getAll", requirement_id |-> 0, files |-> <<>>, candidates |-> <<>>]

\* HR.init() on the cv-upload page: the listeners are set and
\* loadRequirements() awaits its response.
IntakeInit ==
    /\ selectedFiles = <<>>
    /\ requirements = <<>>
    /\ uploadRequirement = 0
    /\ uploads = SetToBag({RequirementsCall})
    /\ srvReqStatus \in [ReqIds -> {"Pending", "Approved"}]
    /\ iev = NoIntakeEvent
    /\ inFile = NoFile
    /\ outFile = NoOut

InitIntake == GWIdle /\ HRIdle /\ IntakeInit /\ WalkinIdle /\ AuthIdle

RECURSIVE SetToSeq(_)
SetToSeq(S) ==
    IF S = {} THEN <<>>
    ELSE LET x == CHOOSE y \in S : \A z \in S : y <= z IN <<x>> \o SetToSeq(S \ {x})

\* GET /requirements?status=Approved: the approved requirements.
SrvApproved == SetToSeq({r \in ReqIds : srvReqStatus[r] = "Approved"})

\* loadRequirements() after its await, then the page loader setupCVUpload().
INRequirementsResponse(ok) ==
    /\ BagIn(RequirementsCall, uploads)
    /\ uploads' = uploads (-) SetToBag({RequirementsCall})
    /\ requirements' = IF ok THEN SrvApproved ELSE requirements
    /\ selectedFiles' = <<>>
    /\ iev' = IntakeEvent("loaded")
    /\ UNCHANGED <<uploadRequirement, srvReqStatus, inFile, outFile>>
    /\ UNCHANGED <<gwVars, hrVars, wkVars, auVars>>

\* handleFiles(files): drop or selection of a batch.
INHandleFiles(batch) ==
    /\ LET out == ClassifiedBatch[batch]
       IN /\ Len(selectedFiles) + Len(out.validFiles) <= MaxBatch
          /\ selectedFiles' = selectedFiles \o out.validFiles
          /\ iev' = [IntakeEvent("classify") EXCEPT !.batch = batch,
                        !.valid = out.validFiles, !.errors = out.errors]
    /\ UNCHANGED <<requirements, uploadRequirement, uploads, srvReqStatus, inFile, outFile>>
    /\ UNCHANGED <<gwVars, hrVars, wkVars, auVars>>

\* removeFile(index): selectedFiles.splice(index, 1).
INRemoveFile(index) ==
    /\ index \in 1..Len(selectedFiles)
    /\ selectedFiles' = SubSeq(selectedFiles, 1, index - 1)
                           \o SubSeq(selectedFiles, index + 1, Len(selectedFiles))
    /\ iev' = IntakeEvent("remove")
    /\ UNCHANGED <<requirements, uploadRequirement, uploads, srvReqStatus, inFile, outFile>>
    /\ UNCHANGED <<gwVars, hrVars, wkVars, auVars>>

\* populateRequirementDropdowns(): the options of #upload-requirement, and
\* the user choosing one.
INSelectRequirement(r) ==
    /\ r = 0 \/ \E k \in 1..Len(requirements) : requirements[k] = r
    /\ uploadRequirement' = r
    /\ iev' = IntakeEvent("select")
    /\ UNCHANGED <<selectedFiles, requirements, uploads, srvReqStatus, inFile, outFile>>
    /\ UNCHANGED <<gwVars, hrVars, wkVars, auVars>>

\* Variant: the handler does not look at the requirement chosen.
UploadRefused_NoRequirementCheck(files, requirementId) == Len(files) = 0

\* handleCVUpload(): the two early returns.
UploadRefused(files, requirementId) == Len(files) = 0 \/ requirementId = 0

\* handleCVUpload(): the arguments of API.candidates.uploadCVs.
UploadCall(files, requirementId) ==
    [op |-> "uploadCVs", requirement_id |-> requirementId,
     files |-> [i \in 1..Len(files) |-> files[i].file],
     candidates |-> [i \in 1..Len(files) |->
                       [name |-> files[i].name, mobile |-> files[i].mobile,
                        source |-> files[i].source]]]

\* handleCVUpload(): submit of #cv-upload-form.
INHandleCVUpload ==
    /\ IF UploadRefused(selectedFiles, uploadRequirement)
       THEN uploads' = uploads
       ELSE /\ BagCardinality(uploads) < MaxUploads
            /\ uploads' = uploads (+) SetToBag({UploadCall(selectedFiles, uploadRequirement)})
    /\ iev' = IF Len(selectedFiles) = 0 \/ uploadRequirement = 0
              THEN IntakeEvent("uploadRefused")
              ELSE [IntakeEvent("uploadIssued") EXCEPT
                      !.approved = srvReqStatus[uploadRequirement] = "Approved"]
    /\ UNCHANGED <<selectedFiles, requirements, uploadRequirement, srvReqStatus, inFile,
                   outFile>>
    /\ UNCHANGED <<gwVars, hrVars, wkVars, auVars>>

\* The remote side takes candidates for a requirement only while it is
\* Approved.
SrvAcceptsUpload(call) ==
    call.requirement_id \in ReqIds /\ srvReqStatus[call.requirement_id] = "Approved"

\* Variant: the pending files and the requirement are cleared whatever the
\* outcome of the upload.
AfterUpload_ClearedAlways(ok, files, requirementId) == [files |-> <<>>, requirement |-> 0]

\* handleCVUpload(): selectedFiles = [] and #upload-requirement = '' follow
\* the await inside try; the catch block touches neither.
AfterUpload(ok, files, requirementId) ==
    IF ok THEN [files |-> <<>>, requirement |-> 0]
    ELSE [files |-> files, requirement |-> requirementId]

\* handleCVUpload() after its await.
INUploadResponse(call, ok) ==
    /\ BagIn(call, uploads)
    /\ call.op = "uploadCVs"
    /\ ok => SrvAcceptsUpload(call)
    /\ uploads' = uploads (-) SetToBag({call})
    /\ selectedFiles' = AfterUpload(ok, selectedFiles, uploadRequirement).files
    /\ uploadRequirement' = AfterUpload(ok, selectedFiles, uploadRequirement).requirement
    /\ iev' = IntakeEvent(IF ok THEN "uploadOk" ELSE "uploadFail")
    /\ UNCHANGED <<requirements, srvReqStatus, inFile, outFile>>
    /\ UNCHANGED <<gwVars, hrVars, wkVars, auVars>>

\* The status of a requirement changes remotely: a pending one is approved,
\* an approved one is closed.
INRemoteStatusChange(r) ==
    /\ srvReqStatus[r] \in {"Pending", "Approved"}
    /\ srvReqStatus' = [srvReqStatus EXCEPT ![r] =
                           IF @ = "Pending" THEN "Approved" ELSE "Closed"]
    /\ iev' = IntakeEvent("remote")
    /\ UNCHANGED <<selectedFiles, requirements, uploadRequirement, uploads, inFile, outFile>>
    /\ UNCHANGED <<gwVars, hrVars, wkVars, auVars>>

NextIntake ==
    \/ \E ok \in BOOLEAN : INRequirementsResponse(ok)
    \/ \E batch \in Batches : INHandleFiles(batch)
    \/ \E index \in 1..MaxBatch : INRemoveFile(index)
    \/ \E r \in ReqIds \cup {0} : INSelectRequirement(r)
    \/ INHandleCVUpload
    \/ \E call \in BagToSet(uploads) : \E ok \in BOOLEAN : INUploadResponse(call, ok)
    \/ \E r \in ReqIds : INRemoteStatusChange(r)

SpecIntake == InitIntake /\ [][NextIntake]_vars

Accepted(file) == ClassifyFile(file).accepted

RECURSIVE FilesOf(_)
FilesOf(entries) == IF entries = <<>> THEN <<>> ELSE <<Head(entries).file>> \o FilesOf(Tail(entries))

RECURSIVE NamesOf(_)
NamesOf(list) == IF list = <<>> THEN <<>> ELSE <<Head(list).filename>> \o NamesOf(Tail(list))

\* C15: of a batch given to handleFiles every file is either among the
\* accepted entries or has exactly one error, never both and never neither,
\* also when files before it were rejected; the accepted entries keep the
\* order of the batch.
C15_BatchPartition ==
    iev.kind = "classify" =>
        /\ Len(iev.valid) + Len(iev.errors) = Len(iev.batch)
        /\ FilesOf(iev.valid) = SelectSeq(iev.batch, Accepted)
        /\ NamesOf(iev.errors) =
              NamesOf([i \in 1..Len(SelectSeq(iev.batch, LAMBDA f : ~Accepted(f))) |->
                         [filename |-> SelectSeq(iev.batch, LAMBDA f : ~Accepted(f))[i].name]])

C15_Witness ==
    /\ iev.kind = "classify"
    /\ Len(iev.batch) >= 2
    /\ ~Accepted(iev.batch[1])
    /\ Accepted(iev.batch[2])
    /\ Len(iev.valid) > 0

\* C16: classifying a batch has no side effect, so classifying the same
\* batch again right away yields the same partition and leaves the files
\* pending upload as they were after the first classification.
C16_ClassificationIdempotent ==
    [][ (iev.kind = "classify" /\ iev'.kind = "classify" /\ iev'.batch = iev.batch) =>
            /\ iev'.valid = iev.valid
            /\ iev'.errors = iev.errors
            /\ selectedFiles' = selectedFiles ]_vars

\* The step adds no uploadCVs call to the calls awaiting their response.
NoUploadIssued ==
    \A call \in BagToSet(uploads') :
        call.op = "uploadCVs" => CopiesIn(call, uploads') <= CopiesIn(call, uploads)

\* C17: an upload submitted with no requirement chosen or with no pending
\* file issues no call; any other upload issues exactly one uploadCVs call,
\* carrying the requirement and every pending file with its parsed name,
\* mobile and source.
C17_UploadGuarded ==
    [][ /\ (Len(selectedFiles) = 0 \/ uploadRequirement = 0) => NoUploadIssued
        /\ iev'.kind = "uploadRefused" => uploads' = uploads
        /\ iev'.kind = "uploadIssued" =>
              /\ BagCardinality(uploads') = BagCardinality(uploads) + 1
              /\ \E call \in BagToSet(uploads') :
                    /\ uploads' = uploads (+) SetToBag({call})
                    /\ call.op = "uploadCVs"
                    /\ call.requirement_id = uploadRequirement
                    /\ call.files = FilesOf(selectedFiles)
                    /\ Len(call.candidates) = Len(selectedFiles)
                    /\ \A i \in 1..Len(selectedFiles) :
                          /\ call.candidates[i].name = selectedFiles[i].name
                          /\ call.candidates[i].mobile = selectedFiles[i].mobile
                          /\ call.candidates[i].source = selectedFiles[i].source ]_vars

C17_Witness ==
    /\ iev.kind = "uploadIssued"
    /\ Len(selectedFiles) = MaxBatch
    /\ \E call \in BagToSet(uploads) : call.op = "uploadCVs" /\ Len(call.files) = MaxBatch

\* C18: the requirement an uploadCVs call names is Approved when the call
\* is issued.
C18_UploadTargetsApproved == iev.kind = "uploadIssued" => iev.approved

\* C30: the answer to a failed upload leaves the pending files and the
\* chosen requirement as they were; the answer to a successful upload empties
\* the pending files and clears the requirement, and a submit that follows
\* it directly issues no upload call.
C30_UploadOutcome ==
    [][ /\ (uploads' # uploads /\ iev'.kind = "uploadFail") =>
              /\ selectedFiles' = selectedFiles
              /\ uploadRequirement' = uploadRequirement
        /\ (uploads' # uploads /\ iev'.kind = "uploadOk") =>
              /\ selectedFiles' = <<>>
              /\ uploadRequirement' = 0
        /\ (iev.kind = "uploadOk" /\ iev'.kind \in {"uploadRefused", "uploadIssued"}) =>
              /\ iev'.kind = "uploadRefused"
              /\ uploads' = uploads ]_vars

\* An upload of two files has failed: the files and the requirement are still
\* in place.
C30_Witness ==
    /\ iev.kind = "uploadFail"
    /\ Len(selectedFiles) = 2
    /\ uploadRequirement # 0
    /\ uploads = EmptyBag

\* ------------------------------------------------------------------------
\* Walk-in form (js/candidate.js)
\* ------------------------------------------------------------------------
\* The listeners are attached to #walkin-form, #verify-math, #capture-photo,
\* #retake-photo, .btn-next and .btn-prev whatever step is shown; which step
\* holds which control is decided by the markup, not by the module. A
\* handler is taken to run whenever its event can be delivered, that is as
\* long as the form is in the document.

InitWalkin ==
    /\ GWIdle /\ HRIdle /\ IntakeIdle /\ AuthIdle
    /\ currentStep = 1
    /\ candidateData = [mathVerified |-> FALSE, personal |-> FALSE, photo |-> FALSE]
    /\ formShown = TRUE
    /\ walkinCalls = EmptyBag
    /\ wev = [kind |-> "none", from |-> 0]

\* Variant: step 3 is left without a photo.
validateStep_NoPhotoCheck(step, data, fieldsFilled) ==
    CASE step = 1 -> data.mathVerified
      [] step = 2 -> fieldsFilled
      [] OTHER    -> TRUE

\* validateStep(step). fieldsFilled: every required field of
\* #personal-details-form has a non-blank value.
validateStep(step, data, fieldsFilled) ==
    CASE step = 1 -> data.mathVerified
      [] step = 2 -> fieldsFilled
      [] step = 3 -> data.photo
      [] OTHER    -> TRUE

\* verifyMathAnswer(), from the arrival of the answer on: correct is the
\* server's verdict or, when the call failed, the local comparison. Nothing
\* is written before the answer arrives.
verifyMathAnswer(correct) ==
    /\ formShown
    /\ candidateData' = IF correct THEN [candidateData EXCEPT !.mathVerified = TRUE]
                        ELSE candidateData
    /\ wev' = [kind |-> "verify", from |-> currentStep]
    /\ UNCHANGED <<currentStep, formShown, walkinCalls>>
    /\ UNCHANGED <<gwVars, hrVars, inVars, auVars>>

capturePhoto ==
    /\ formShown
    /\ candidateData' = [candidateData EXCEPT !.photo = TRUE]
    /\ wev' = [kind |-> "capture", from |-> currentStep]
    /\ UNCHANGED <<currentStep, formShown, walkinCalls>>
    /\ UNCHANGED <<gwVars, hrVars, inVars, auVars>>

retakePhoto ==
    /\ formShown
    /\ candidateData' = [candidateData EXCEPT !.photo = FALSE]
    /\ wev' = [kind |-> "retake", from |-> currentStep]
    /\ UNCHANGED <<currentStep, formShown, walkinCalls>>
    /\ UNCHANGED <<gwVars, hrVars, inVars, auVars>>

\* nextStep(): validateStep stores the personal details when step 2 is valid.
nextStep(fieldsFilled) ==
    /\ formShown
    /\ LET valid == validateStep(currentStep, candidateData, fieldsFilled)
       IN /\ currentStep' = IF valid /\ currentStep < 4 THEN currentStep + 1
                            ELSE currentStep
          /\ candidateData' = IF valid /\ currentStep = 2
                              THEN [candidateData EXCEPT !.personal = TRUE]
                              ELSE candidateData
    /\ wev' = [kind |-> "next", from |-> currentStep]
    /\ UNCHANGED <<formShown, walkinCalls>>
    /\ UNCHANGED <<gwVars, hrVars, inVars, auVars>>

prevStep ==
    /\ formShown
    /\ currentStep' = IF currentStep > 1 THEN currentStep - 1 ELSE currentStep
    /\ wev' = [kind |-> "prev", from |-> currentStep]
    /\ UNCHANGED <<candidateData, formShown, walkinCalls>>
    /\ UNCHANGED <<gwVars, hrVars, inVars, auVars>>

\* handleWalkinFormSubmit(e), up to the await: the data of the last form are
\* merged into candidateData and submitForm is called with it.
handleWalkinFormSubmit ==
    /\ formShown
    /\ BagCardinality(walkinCalls) < MaxSubmits
    /\ walkinCalls' = walkinCalls (+) SetToBag({[data |-> candidateData,
                                                 step |-> currentStep]})
    /\ wev' = [kind |-> "submit", from |-> currentStep]
    /\ UNCHANGED <<currentStep, candidateData, formShown>>
    /\ UNCHANGED <<gwVars, hrVars, inVars, auVars>>

\* handleWalkinFormSubmit(e), after the await: showSuccessMessage() replaces
\* the form, a failure leaves it for another attempt.
WalkinSubmitResponse(call, ok) ==
    /\ BagIn(call, walkinCalls)
    /\ walkinCalls' = walkinCalls (-) SetToBag({call})
    /\ formShown' = IF ok THEN FALSE ELSE formShown
    /\ wev' = [kind |-> IF ok THEN "submitted" ELSE "submitFailed", from |-> currentStep]
    /\ UNCHANGED <<currentStep, candidateData>>
    /\ UNCHANGED <<gwVars, hrVars, inVars, auVars>>

NextWalkin ==
    \/ \E correct \in BOOLEAN : verifyMathAnswer(correct)
    \/ capturePhoto
    \/ retakePhoto
    \/ \E fieldsFilled \in BOOLEAN : nextStep(fieldsFilled)
    \/ prevStep
    \/ handleWalkinFormSubmit
    \/ \E call \in BagToSet(walkinCalls) : \E ok \in BOOLEAN :
          WalkinSubmitResponse(call, ok)

SpecWalkin == InitWalkin /\ [][NextWalkin]_vars

\* C27: the step shown is one of 1..4 and changes by exactly one, through
\* nextStep or prevStep only; a step after the first is shown only once the
\* math check is verified; step 4 is entered from step 3 only with a photo
\* captured at that moment.
C27_WizardSteps ==
    [][ /\ currentStep \in 1..4 /\ currentStep' \in 1..4
        /\ currentStep' > 1 => candidateData'.mathVerified
        /\ currentStep' # currentStep =>
              /\ wev'.kind \in {"next", "prev"}
              /\ currentStep' = currentStep + 1 \/ currentStep' = currentStep - 1
        /\ currentStep' > currentStep =>
              /\ wev'.kind = "next"
              /\ currentStep' = currentStep + 1
        /\ (currentStep = 3 /\ currentStep' = 4) => candidateData.photo ]_vars

\* Step 4 has just been entered from step 3, the personal details stored and
\* the photo captured.
C27_Witness ==
    /\ currentStep = 4
    /\ wev.kind = "next"
    /\ wev.from = 3
    /\ candidateData.photo
    /\ candidateData.personal

\* C28: submitForm is called only at step 4 with the math check verified
\* and a photo captured at that moment.
C28_SubmitOnlyWhenComplete ==
    [][ BagCardinality(walkinCalls') > BagCardinality(walkinCalls) =>
          /\ currentStep = 4
          /\ candidateData.mathVerified
          /\ candidateData.photo ]_vars

\* ------------------------------------------------------------------------
\* Session and token-refresh timer (js/auth.js)
\* ------------------------------------------------------------------------
\* A page is loaded with whatever earlier pages left in localStorage: a token
\* and a user (stored together on sign-in), a token alone, or nothing. The
\* timer belongs to the page and starts unset.
InitAuth ==
    /\ GWIdle /\ HRIdle /\ IntakeIdle /\ WalkinIdle
    /\ tokenState \in {"none", "valid", "expired"}
    /\ currentUser \in BOOLEAN
    /\ currentUser => tokenState # "none"
    /\ tokenRefreshTimer = 0
    /\ intervals = {}
    /\ nIntervals = 0
    /\ authCalls = EmptyBag
    /\ logoutDone = FALSE
    /\ aev = [kind |-> "none", refresh |-> FALSE]

\* isAuthenticated(): a token and a user are stored.
isAuthenticated == tokenState # "none" /\ currentUser

\* Variant: a new interval is set without clearing the one in place.
startTokenRefresh_NoClear(handle, active, id) ==
    [handle |-> id, active |-> active \cup {id}]

\* startTokenRefresh(): clearInterval(tokenRefreshTimer) when it is set, then
\* tokenRefreshTimer = setInterval(...), which yields the fresh id.
startTokenRefresh(handle, active, id) ==
    [handle |-> id, active |-> (active \ {handle}) \cup {id}]

\* Auth.init(): starts the timer for a live session; for a session whose
\* token is expired it awaits refreshToken() first; otherwise returns false.
AuthInit ==
    /\ IF isAuthenticated /\ tokenState = "valid"
       THEN /\ nIntervals < MaxIntervals
            /\ LET t == startTokenRefresh(tokenRefreshTimer, intervals, nIntervals + 1)
               IN tokenRefreshTimer' = t.handle /\ intervals' = t.active
            /\ nIntervals' = nIntervals + 1
            /\ UNCHANGED authCalls
       ELSE /\ isAuthenticated => BagCardinality(authCalls) < MaxAuthCalls
            /\ authCalls' = IF isAuthenticated
                            THEN authCalls (+) SetToBag({[op |-> "refresh", by |-> "init"]})
                            ELSE authCalls
            /\ UNCHANGED <<tokenRefreshTimer, intervals, nIntervals>>
    /\ aev' = [kind |-> "init", refresh |-> isAuthenticated /\ tokenState # "valid"]
    /\ UNCHANGED <<tokenState, currentUser, logoutDone>>
    /\ UNCHANGED <<gwVars, hrVars, inVars, wkVars>>

\* handleGoogleCallback(response), after its await: a successful sign-in
\* stores token and user and starts the timer.
AuthLogin(ok) ==
    /\ ok => nIntervals < MaxIntervals
    /\ IF ok
       THEN /\ tokenState' = "valid"
            /\ currentUser' = TRUE
            /\ LET t == startTokenRefresh(tokenRefreshTimer, intervals, nIntervals + 1)
               IN tokenRefreshTimer' = t.handle /\ intervals' = t.active
            /\ nIntervals' = nIntervals + 1
            /\ logoutDone' = FALSE
       ELSE UNCHANGED <<tokenState, currentUser, tokenRefreshTimer, intervals,
                        nIntervals, logoutDone>>
    /\ aev' = [kind |-> "login", refresh |-> FALSE]
    /\ UNCHANGED authCalls
    /\ UNCHANGED <<gwVars, hrVars, inVars, wkVars>>

\* The callback of interval id fires: it calls refreshToken() for a live
\* session and does nothing otherwise.
AuthTick(id) ==
    /\ id \in intervals
    /\ LET live == isAuthenticated /\ tokenState = "valid"
       IN /\ live => BagCardinality(authCalls) < MaxAuthCalls
          /\ authCalls' = IF live
                          THEN authCalls (+) SetToBag({[op |-> "refresh", by |-> "tick"]})
                          ELSE authCalls
          /\ aev' = [kind |-> "tick", refresh |-> live]
    /\ UNCHANGED <<tokenState, currentUser, tokenRefreshTimer, intervals, nIntervals,
                   logoutDone>>
    /\ UNCHANGED <<gwVars, hrVars, inVars, wkVars>>

\* refreshToken() after its await, then its caller: the timer callback has
\* nothing left to do; init() starts the timer when the token was refreshed,
\* and calls logout() without awaiting it when it was not.
AuthRefreshResponse(call, ok) ==
    /\ BagIn(call, authCalls)
    /\ call.op = "refresh"
    /\ tokenState' = IF ok THEN "valid" ELSE tokenState
    /\ IF call.by = "init" /\ ok
       THEN /\ nIntervals < MaxIntervals
            /\ LET t == startTokenRefresh(tokenRefreshTimer, intervals, nIntervals + 1)
               IN tokenRefreshTimer' = t.handle /\ intervals' = t.active
            /\ nIntervals' = nIntervals + 1
       ELSE UNCHANGED <<tokenRefreshTimer, intervals, nIntervals>>
    /\ authCalls' = IF call.by = "init" /\ ~ok
                    THEN (authCalls (-) SetToBag({call}))
                         (+) SetToBag({[op |-> "logout", by |-> "init"]})
                    ELSE authCalls (-) SetToBag({call})
    /\ aev' = [kind |-> "refreshed", refresh |-> FALSE]
    /\ UNCHANGED <<currentUser, logoutDone>>
    /\ UNCHANGED <<gwVars, hrVars, inVars, wkVars>>

\* logout() is called, by the logout button of the dashboard or by
\* API.request after a failed refresh: it issues POST /auth/logout.
AuthLogout ==
    /\ BagCardinality(authCalls) < MaxAuthCalls
    /\ authCalls' = authCalls (+) SetToBag({[op |-> "logout", by |-> "caller"]})
    /\ aev' = [kind |-> "logout", refresh |-> FALSE]
    /\ UNCHANGED <<tokenState, currentUser, tokenRefreshTimer, intervals, nIntervals,
                   logoutDone>>
    /\ UNCHANGED <<gwVars, hrVars, inVars, wkVars>>

\* logout() after its await, whatever the request returned or threw: the
\* finally block removes token and user and stops the timer
\* (stopTokenRefresh: clearInterval when the timer is set, then null).
AuthLogoutResponse(call) ==
    /\ BagIn(call, authCalls)
    /\ call.op = "logout"
    /\ authCalls' = authCalls (-) SetToBag({call})
    /\ tokenState' = "none"
    /\ currentUser' = FALSE
    /\ intervals' = intervals \ {tokenRefreshTimer}
    /\ tokenRefreshTimer' = 0
    /\ logoutDone' = TRUE
    /\ aev' = [kind |-> "loggedOut", refresh |-> FALSE]
    /\ UNCHANGED nIntervals
    /\ UNCHANGED <<gwVars, hrVars, inVars, wkVars>>

NextAuth ==
    \/ AuthInit
    \/ \E ok \in BOOLEAN : AuthLogin(ok)
    \/ \E id \in intervals : AuthTick(id)
    \/ \E call \in BagToSet(authCalls) : \E ok \in BOOLEAN : AuthRefreshResponse(call, ok)
    \/ AuthLogout
    \/ \E call \in BagToSet(authCalls) : AuthLogoutResponse(call)
    \* Time passes: Date.now() reaches the exp of the stored token.
    \/ /\ tokenState = "valid"
       /\ tokenState' = "expired"
       /\ aev' = [kind |-> "expire", refresh |-> FALSE]
       /\ UNCHANGED <<currentUser, tokenRefreshTimer, intervals, nIntervals, authCalls,
                      logoutDone>>
       /\ UNCHANGED <<gwVars, hrVars, inVars, wkVars>>

SpecAuth == InitAuth /\ [][NextAuth]_vars

\* C29: at most one token-refresh interval is set at any time; a firing of
\* the timer issues a refresh request only when a token and a user are
\* stored and the token is not expired, and never once a logout has
\* completed.
C29_SingleGuardedTimer ==
    [][ /\ Cardinality(intervals') <= 1
        /\ (aev'.kind = "tick" /\ aev'.refresh) =>
              /\ tokenState = "valid"
              /\ currentUser
              /\ ~logoutDone
        /\ (aev'.kind = "tick" /\ ~(tokenState = "valid" /\ currentUser)) =>
              authCalls' = authCalls
        /\ (logoutDone' /\ ~logoutDone) => intervals' = {} ]_vars

\* The timer was started, started again and fired: it issued a refresh.
C29_Witness ==
    /\ aev.kind = "tick"
    /\ aev.refresh
    /\ nIntervals >= 2
    /\ Cardinality(intervals) = 1
====
